---- MODULE Spec2Model ----
(***************************************************************************)
(* A model of the statistics insertion of the ha_enocoo integration        *)
(* (custom_components/ha_enocoo/_statistics.py, _util.py).                 *)
(*                                                                         *)
(* The module holds several specifications over one set of variables:      *)
(*   Spec        the orchestrator: trigger_insertion, the tasks it creates *)
(*               and the lock-guarded pass of _insert_statistics;          *)
(*   SpecInsert  insertion passes of one primary statistic id against the  *)
(*               statistics store (planner, hourly aggregation, append);   *)
(*   SpecAgg     the hourly aggregation applied to one response of the     *)
(*               remote, as a function of the readings and the anchor;     *)
(*   SpecGate    the freshness gate of _find_last_stats as a function of   *)
(*               the last point's end and of now;                          *)
(*   SpecDerive  _derive_statistic over a base series in the store;        *)
(*   SpecBisect  bisect over boolean sequences.                            *)
(* Times are seconds since the first midnight of the model's calendar.     *)
(* Values are integers (a fixed-point reading of the source's floats).     *)
(***************************************************************************)
EXTENDS Integers, Sequences, FiniteSets, TLC

(***************************************************************************)
(* Bounds of the model.                                                    *)
(***************************************************************************)
\* trigger_insertion calls made in one behaviour
MaxCalls == 4
\* subentries of the config entry
MaxSubentries == 1
\* days of the model's calendar, and hours of one day
MaxDay == 2
HoursPerDay == 2
\* readings the remote reports per hour (one per slot of the hour)
SlotsPerHour == 2
\* the largest value of one reading
MaxValue == 1
\* points of the base statistic a derived statistic is computed from
MaxBase == 3
\* the largest number of ownership shares of a subentry
MaxShares == 2
\* the longest sequence bisect is applied to
MaxLen == 5
\* the largest consumption value given to calculate_datapoint, in 0.0001
MaxConsumption == 25
\* The months from 2000-01 to the current month, and the days of a month
MaxMonths == 4
\* Polling cycles of the coordinator
MaxCycles == 3
DaysPerMonth == 2
\* 0.0001 counted in representation errors of a double (see Doubles); the
\* errors are far smaller than the decimals they sit on
UnitInErrors == 4

(***************************************************************************)
(* Program constants.                                                      *)
(***************************************************************************)
\* dt.timedelta(hours=1), in seconds
SecondsPerHour == 3600
\* dt.timedelta(minutes=75), in seconds
FreshnessWindow == 4500
\* update_interval = dt.timedelta(minutes=15), in seconds
PollInterval == 900

VARIABLES
    \* ---- orchestrator (StatisticsInserter, the event loop's tasks) ----
    locked,      \* Lock._locked of insertion_in_progress
    waiters,     \* Lock._waiters: the tasks blocked in acquire(), FIFO
    taskState,   \* per task of _insert_statistics: where it is
    jobs,        \* the running pass's sequence of statistics to process
    passPos,     \* the running pass's position: 0 = awaiting get_areas
    calls,       \* trigger_insertion calls made so far
    dropped,     \* trigger_insertion calls that created no task
    subentries,  \* config_entry.subentries: their subentry_type, in order
    \* ---- one primary statistic id and the statistics store ----
    family,      \* "individual" (per-area consumption) or "quarter" (site-wide)
    store,       \* the store's points of the statistic id: [start, state, sum]
    now,         \* the wall clock
    ipc,         \* "idle", or "dates" while a pass iterates its dates
    pass,        \* the running pass's locals (see BeginInsert)
    outcome,     \* how the last pass ended
    \* ---- the hourly aggregation applied to one response ----
    aggIn,       \* [reads, last_stats_time, sum]
    aggOut,      \* <<>>, or <<the aggregation's result>>
    \* ---- _find_last_stats on one store at one time ----
    gateIn,      \* [store, now]
    gateOut,     \* <<>>, or <<what _find_last_stats returned>>
    \* ---- a derived statistic and its base statistic in the store ----
    base,        \* the base statistic's points, ascending
    derived,     \* the derived statistic's points
    dnow,        \* the wall clock
    num_shares,  \* subentry_data[CONF_NUM_SHARES]
    dlast,       \* what the last pass of _derive_statistic did
    \* ---- bisect ----
    a,           \* the sequence searched: key(a[i]), 0-based a[i] is a[i + 1] here
    lo,
    hi,
    bpc,         \* "loop", "returned" or "raised"
    berr,        \* the exception bisect's caller sees: "none" or its type
    \* ---- calculate_datapoint of the two calculated metrics ----
    metIn,       \* [consumption, self_sufficiency]
    metOut,      \* <<>>, or <<[pv, grid]>>: the two metrics' values
    \* ---- _dates_to_insert_individual_statistics and a full backfill ----
    planIn,      \* [store, now, since, until]
    planOut,     \* <<>>, or <<what the planner returned, dates listed>>
    planStore,   \* <<>>, or <<[store, consumption_sum]>> after the backfill
    planResume,  \* <<>>, or <<the stores after an aborted pass and a later pass>>
    \* ---- get_daily_datapoints of a calculated metric, one day ----
    dpIn,        \* [cons, pv]: per hour of the day, the readings of the two series
    dpOut,       \* <<>>, or <<[raised, datapoints]>>
    \* ---- earliest-date discovery for a statistic with no point ----
    edIn,        \* [months, fail]: the remote's data per month, the query that raises
    edOut,       \* <<>>, or <<[raised, date, queries]>>
    \* ---- the coordinator's polling cycles (_async_update_data) ----
    upc,         \* where the running cycle is: "idle" between cycles
    daysBack,    \* num_days_back of _get_latest_photovoltaic_data
    cycles       \* per cycle so far: [remote, outcome, fetched, triggers]



orchVars == <<locked, waiters, taskState, jobs, passPos, calls, dropped, subentries>>
insVars == <<family, store, now, ipc, pass, outcome>>
aggVars == <<aggIn, aggOut>>
gateVars == <<gateIn, gateOut>>
derVars == <<base, derived, dnow, num_shares, dlast>>
bisVars == <<a, lo, hi, bpc, berr>>
metVars == <<metIn, metOut>>
planVars == <<planIn, planOut, planStore, planResume>>
dpVars == <<dpIn, dpOut>>
edVars == <<edIn, edOut>>
pollVars == <<upc, daysBack, cycles>>

vars == <<orchVars, insVars, aggVars, gateVars, derVars, bisVars, metVars, planVars, dpVars, edVars, pollVars>>

\* What the actions of one specification leave alone.
notOrch == <<insVars, aggVars, gateVars, derVars, bisVars, metVars, planVars, dpVars, edVars, pollVars>>
notIns == <<orchVars, aggVars, gateVars, derVars, bisVars, metVars, planVars, dpVars, edVars, pollVars>>
notAgg == <<orchVars, insVars, gateVars, derVars, bisVars, metVars, planVars, dpVars, edVars, pollVars>>
notGate == <<orchVars, insVars, aggVars, derVars, bisVars, metVars, planVars, dpVars, edVars, pollVars>>
notDer == <<orchVars, insVars, aggVars, gateVars, bisVars, metVars, planVars, dpVars, edVars, pollVars>>
notBis == <<orchVars, insVars, aggVars, gateVars, derVars, metVars, planVars, dpVars, edVars, pollVars>>
notMet == <<orchVars, insVars, aggVars, gateVars, derVars, bisVars, planVars, dpVars, edVars, pollVars>>
notPlan == <<orchVars, insVars, aggVars, gateVars, derVars, bisVars, metVars, dpVars, edVars, pollVars>>
notDp == <<orchVars, insVars, aggVars, gateVars, derVars, bisVars, metVars, planVars, edVars, pollVars>>
notEd == <<orchVars, insVars, aggVars, gateVars, derVars, bisVars, metVars, planVars, dpVars, pollVars>>
notPoll == <<orchVars, insVars, aggVars, gateVars, derVars, bisVars, metVars, planVars, dpVars, edVars>>

(***************************************************************************)
(* Areas and the work of one pass (_insert_statistics).                    *)
(***************************************************************************)
\* Area names are sequences of characters, so that startswith is computed.
AreaFlat == [id |-> 1, name |-> <<"W", "1">>]
AreaParking == [id |-> 2, name |-> <<"S", "P", "2">>]
AreaLower == [id |-> 3, name |-> <<"s", "p">>]

\* What enocoo.get_areas() may return.
AreaLists ==
    { <<>>, <<AreaFlat>>, <<AreaParking>>, <<AreaFlat, AreaParking>>,
      <<AreaParking, AreaLower>> }

\* list(ConsumptionType)
ConsumptionTypes == <<"electricity", "water_cold", "water_hot", "heat">>

\* IndividualCalculatedMetric.metrics, in the order the subclasses register
Metrics == <<"supply_from_pv", "supply_from_grid">>

\* The tuple of site-wide statistics _insert_statistics iterates over
QuarterStatistics ==
    <<"quarter_consumption", "quarter_generation",
      "quarter_supply_from_grid", "quarter_feed_into_grid">>

\* str.startswith("SP")
StartsWithSP(name) == Len(name) >= 2 /\ name[1] = "S" /\ name[2] = "P"

AllConsumptionTypes(area) == <<"electricity", "water_cold", "water_hot", "heat">>
relevant_consumption_types(area) ==
    IF StartsWithSP(area.name) THEN <<"electricity">> ELSE ConsumptionTypes

RECURSIVE Flatten(_)
Flatten(ss) == IF ss = <<>> THEN <<>> ELSE Head(ss) \o Flatten(Tail(ss))

AreaJobs(area) ==
    [i \in 1..Len(relevant_consumption_types(area)) |->
        [kind |-> "consumption", area |-> area.id,
         what |-> relevant_consumption_types(area)[i]]]
    \o [i \in 1..Len(Metrics) |->
        [kind |-> "metric", area |-> area.id, what |-> Metrics[i]]]

QuarterJobs ==
    [i \in 1..Len(QuarterStatistics) |->
        [kind |-> "quarter", area |-> 0, what |-> QuarterStatistics[i]]]

SubentryJobs(subs) ==
    Flatten([i \in 1..Len(subs) |->
        IF subs[i] = "ownership_shares"
        THEN << [kind |-> "per_share", area |-> 0, what |-> "quarter_feed_into_grid"] >>
        ELSE <<>>])

\* The statistics one pass processes, in order, for a given area list.
PassJobsDerivedFirst(areas, subs) ==
    SubentryJobs(subs) \o QuarterJobs
    \o Flatten([i \in 1..Len(areas) |-> AreaJobs(areas[i])])
PassJobs(areas, subs) ==
    Flatten([i \in 1..Len(areas) |-> AreaJobs(areas[i])])
    \o QuarterJobs \o SubentryJobs(subs)

(***************************************************************************)
(* The orchestrator: trigger_insertion, asyncio.Lock, _insert_statistics.  *)
(***************************************************************************)
Tasks == 1..MaxCalls

InCriticalSection(t) == taskState[t] = "running"

NumTasksCreated == Cardinality({t \in Tasks : taskState[t] # "unborn"})

NumPassesStarted ==
    Cardinality({t \in Tasks : taskState[t] \in {"running", "done", "failed"}})

SubentryConfigs ==
    UNION { [1..n -> {"ownership_shares", "other"}] : n \in 0..MaxSubentries }

OrchInit ==
    /\ locked = FALSE
    /\ waiters = <<>>
    /\ taskState = [t \in Tasks |-> "unborn"]
    /\ jobs = <<>>
    /\ passPos = 0
    /\ calls = 0
    /\ dropped = 0
    /\ subentries \in SubentryConfigs

\* trigger_insertion's condition for creating a task: the lock is not locked.
TriggerAlways == TRUE
ShouldCreateTask == ~locked

\* trigger_insertion: one synchronous step; the task it creates runs later
\* (or at once: the step that starts it may follow immediately).
trigger_insertion ==
    /\ calls < MaxCalls
    /\ calls' = calls + 1
    /\ IF ShouldCreateTask
       THEN /\ taskState' = [taskState EXCEPT ![calls + 1] = "created"]
            /\ dropped' = dropped
       ELSE /\ dropped' = dropped + 1
            /\ taskState' = taskState
    /\ UNCHANGED <<locked, waiters, jobs, passPos, subentries, notOrch>>

\* Lock.acquire's fast path: not locked and nobody waiting.
AcquireIgnoringLock == TRUE
CanAcquireNow == ~locked /\ waiters = <<>>

\* A created task starts: it enters `async with insertion_in_progress`. It
\* either takes the lock and goes on to await get_areas(), or queues up.
StartTask(t) ==
    /\ taskState[t] = "created"
    /\ IF CanAcquireNow
       THEN /\ locked' = TRUE
            /\ taskState' = [taskState EXCEPT ![t] = "running"]
            /\ passPos' = 0
            /\ jobs' = <<>>
            /\ waiters' = waiters
       ELSE /\ waiters' = Append(waiters, t)
            /\ taskState' = [taskState EXCEPT ![t] = "waiting"]
            /\ UNCHANGED <<locked, passPos, jobs>>
    /\ UNCHANGED <<calls, dropped, subentries, notOrch>>

\* Lock.release: unlock and wake the first waiter (its future is set; it
\* stays in _waiters until it resumes).
ReleaseKeepingLock(ts) == [lk |-> TRUE, ts |-> ts]
Release(ts) ==
    [lk |-> FALSE,
     ts |-> IF waiters # <<>> /\ ts[Head(waiters)] = "waiting"
            THEN [ts EXCEPT ![Head(waiters)] = "woken"]
            ELSE ts]

\* __aexit__ of `async with`: runs on completion and on an exception alike.
ExitPass(t, how) ==
    LET r == Release([taskState EXCEPT ![t] = how])
    IN  /\ locked' = r.lk
        /\ taskState' = r.ts
        /\ jobs' = <<>>
        /\ passPos' = 0

\* A woken waiter resumes inside acquire(): leaves _waiters, takes the lock.
ResumeWaiter(t) ==
    /\ taskState[t] = "woken"
    /\ waiters' = SelectSeq(waiters, LAMBDA w : w # t)
    /\ locked' = TRUE
    /\ taskState' = [taskState EXCEPT ![t] = "running"]
    /\ passPos' = 0
    /\ jobs' = <<>>
    /\ UNCHANGED <<calls, dropped, subentries, notOrch>>

\* await enocoo.get_areas() returns the area list.
GetAreas(t) ==
    /\ InCriticalSection(t)
    /\ passPos = 0
    /\ \E areas \in AreaLists : jobs' = PassJobs(areas, subentries)
    /\ passPos' = 1
    /\ UNCHANGED <<locked, waiters, taskState, calls, dropped, subentries, notOrch>>

\* One awaited statistic of the pass completes; after the last one the pass
\* leaves the `async with` block.
RunJob(t) ==
    /\ InCriticalSection(t)
    /\ passPos >= 1
    /\ IF passPos < Len(jobs)
       THEN /\ passPos' = passPos + 1
            /\ UNCHANGED <<locked, taskState, jobs>>
       ELSE ExitPass(t, "done")
    /\ UNCHANGED <<waiters, calls, dropped, subentries, notOrch>>

\* The awaited call (get_areas, or a statistic) raises: the exception leaves
\* the `async with` block and ends the task.
PassRaises(t) ==
    /\ InCriticalSection(t)
    /\ ExitPass(t, "failed")
    /\ UNCHANGED <<waiters, calls, dropped, subentries, notOrch>>

(***************************************************************************)
(* Time and readings.                                                      *)
(***************************************************************************)
\* Python's None where a time, a date or a number is expected
Nothing == -1

SecondsPerDay == HoursPerDay * SecondsPerHour
MaxNow == MaxDay * SecondsPerDay
Days == 0..(MaxDay - 1)

\* datetime.date(): the calendar day of an instant
DateOf(t) == t \div SecondsPerDay
\* datetime.hour: the hour of the day of an instant
HourOf(t) == (t % SecondsPerDay) \div SecondsPerHour
\* datetime.combine(date, hour): the instant a given hour of a date starts
StartOfHour(date, hour) == date * SecondsPerDay + hour * SecondsPerHour

Min(x, y) == IF x <= y THEN x ELSE y

\* The remote reports at most one reading per slot of an hour, sorted by
\* start; a reading's period is the slot's length, give or take a second.
SlotLen == SecondsPerHour \div SlotsPerHour
Periods == {SlotLen - 1, SlotLen, SlotLen + 1}
Units == {"kWh", "Wh"}
Values == 0..MaxValue

\* Per slot: no reading, or one reading's quantity (for a photovoltaic
\* summary: the quantity get_quantity selects) and period.
SlotChoices ==
    [1..SlotsPerHour ->
        {<<>>} \cup {<<r>> : r \in [period : Periods, value : Values, unit : Units]}]

RECURSIVE SlotReads(_, _, _)
SlotReads(h0, c, i) ==
    IF i > SlotsPerHour THEN <<>>
    ELSE (IF c[i] = <<>> THEN <<>>
          ELSE << [start |-> h0 + (i - 1) * SlotLen, period |-> c[i][1].period,
                   value |-> c[i][1].value, unit |-> c[i][1].unit] >>)
         \o SlotReads(h0, c, i + 1)

\* What a day-interval query may return for the hour starting at h0 when
\* asked at time nw: readings of slots that have ended.
HourReads(h0, nw) ==
    { SlotReads(h0, c, 1) :
        c \in {c \in SlotChoices :
                 \A i \in 1..SlotsPerHour : c[i] # <<>> => h0 + i * SlotLen <= nw} }

(***************************************************************************)
(* The statistics store (the host's recorder), one statistic id.           *)
(***************************************************************************)
\* get_last_statistics(hass, 1, statistic_id, ...): the point of latest start
LastPoint(st) == CHOOSE p \in st : \A q \in st : q.start <= p.start

\* statistics_during_period(hass, start, None, {id}, "hour", ...): the
\* points whose start is at or after `start`, ascending
RECURSIVE SortedPoints(_)
SortedPoints(ps) ==
    IF ps = {} THEN <<>>
    ELSE LET first == CHOOSE p \in ps : \A q \in ps : p.start <= q.start
         IN  <<first>> \o SortedPoints(ps \ {first})

statistics_during_period(st, start) ==
    SortedPoints({p \in st : p.start >= start})

\* async_add_external_statistics: a point replaces the stored point of the
\* same start, if any
RECURSIVE async_add_external_statistics(_, _)
async_add_external_statistics(st, new_stats) ==
    IF new_stats = <<>> THEN st
    ELSE async_add_external_statistics(
            {q \in st : q.start # Head(new_stats).start} \cup {Head(new_stats)},
            Tail(new_stats))

(***************************************************************************)
(* _find_last_stats and the freshness gate.                                *)
(***************************************************************************)
\* not (last_stats_end_time and (now - last_stats_end_time) <= 75 minutes)
GateStrict(last_stats_end_time, nw) ==
    ~(last_stats_end_time # Nothing /\ nw - last_stats_end_time < FreshnessWindow)
ExpectingNewerData(last_stats_end_time, nw) ==
    ~(last_stats_end_time # Nothing /\ nw - last_stats_end_time <= FreshnessWindow)

SumZero(st) == 0
SumOfLast(st) == statistics_during_period(st, LastPoint(st).start)[1].sum

find_last_stats(st, nw) ==
    LET last_stats_time == IF st # {} THEN LastPoint(st).start ELSE Nothing
        last_stats_end_time ==
            IF st # {} THEN LastPoint(st).start + SecondsPerHour ELSE Nothing
        consumption_sum == IF st # {} THEN SumOfLast(st) ELSE 0
    IN  [last_stats_time |-> last_stats_time,
         last_stats_end_time |-> last_stats_end_time,
         consumption_sum |-> consumption_sum,
         expecting_newer_data |-> ExpectingNewerData(last_stats_end_time, nw)]

(***************************************************************************)
(* The hourly aggregation (the loops over groupby in the _insert_*         *)
(* methods).                                                               *)
(***************************************************************************)
RECURSIVE SumPeriods(_)
SumPeriods(reads) ==
    IF reads = <<>> THEN 0 ELSE Head(reads).period + SumPeriods(Tail(reads))

RECURSIVE SumValues(_)
SumValues(reads) ==
    IF reads = <<>> THEN 0 ELSE Head(reads).value + SumValues(Tail(reads))

\* itertools.groupby: the maximal runs of consecutive items of equal key;
\* keys[i] is the key of items[i]
RECURSIVE GroupBy(_, _)
GroupBy(keys, items) ==
    IF items = <<>> THEN <<>>
    ELSE LET n == CHOOSE n \in 1..Len(items) :
                    /\ \A i \in 1..n : keys[i] = keys[1]
                    /\ n = Len(items) \/ keys[n + 1] # keys[1]
         IN  <<SubSeq(items, 1, n)>>
             \o GroupBy(SubSeq(keys, n + 1, Len(keys)), SubSeq(items, n + 1, Len(items)))

GroupByUnit(reads) == GroupBy([i \in 1..Len(reads) |-> reads[i].unit], reads)
GroupByHour(reads) == GroupBy([i \in 1..Len(reads) |-> HourOf(reads[i].start)], reads)

UsableIgnoringAnchor(hourly_reads, last_stats_time) ==
    SumPeriods(hourly_reads) = SecondsPerHour
UsableAtLeastAnHour(hourly_reads, last_stats_time) ==
    IF last_stats_time # Nothing /\ hourly_reads[1].start <= last_stats_time
    THEN FALSE
    ELSE SumPeriods(hourly_reads) >= SecondsPerHour
reading_is_usable(hourly_reads, last_stats_time) ==
    IF last_stats_time # Nothing /\ hourly_reads[1].start <= last_stats_time
    THEN FALSE
    ELSE IF SumPeriods(hourly_reads) # SecondsPerHour
         THEN FALSE
         ELSE TRUE

\* The inner loop: the hour groups of one unit group, folded into new_stats.
RECURSIVE HourLoopNoCarry(_, _, _, _)
HourLoopNoCarry(groups, last_stats_time, consumption_sum, new_stats) ==
    IF groups = <<>> THEN [new_stats |-> new_stats, consumption_sum |-> consumption_sum]
    ELSE LET hourly_reads == Head(groups)
             consumption == SumValues(hourly_reads)
         IN  IF ~reading_is_usable(hourly_reads, last_stats_time)
             THEN HourLoopNoCarry(Tail(groups), last_stats_time, consumption_sum,
                                  new_stats)
             ELSE HourLoopNoCarry(Tail(groups), last_stats_time, consumption,
                                  Append(new_stats,
                                         [start |-> hourly_reads[1].start,
                                          state |-> consumption,
                                          sum |-> consumption]))
RECURSIVE HourLoop(_, _, _, _)
HourLoop(groups, last_stats_time, consumption_sum, new_stats) ==
    IF groups = <<>> THEN [new_stats |-> new_stats, consumption_sum |-> consumption_sum]
    ELSE LET hourly_reads == Head(groups)
             consumption == SumValues(hourly_reads)
         IN  IF ~reading_is_usable(hourly_reads, last_stats_time)
             THEN HourLoop(Tail(groups), last_stats_time, consumption_sum, new_stats)
             ELSE HourLoop(Tail(groups), last_stats_time, consumption_sum + consumption,
                           Append(new_stats,
                                  [start |-> hourly_reads[1].start,
                                   state |-> consumption,
                                   sum |-> consumption_sum + consumption]))

\* The outer loop: per unit group one call of async_add_external_statistics;
\* the running sum is carried from group to group.
RECURSIVE UnitLoop(_, _, _, _, _)
UnitLoop(unit_groups, last_stats_time, consumption_sum, st, emitted) ==
    IF unit_groups = <<>>
    THEN [store |-> st, consumption_sum |-> consumption_sum, emitted |-> emitted]
    ELSE LET r == HourLoop(GroupByHour(Head(unit_groups)), last_stats_time,
                           consumption_sum, <<>>)
         IN  UnitLoop(Tail(unit_groups), last_stats_time, r.consumption_sum,
                      async_add_external_statistics(st, r.new_stats),
                      emitted \o r.new_stats)

\* What one response of the remote adds to the store.
InsertReads(all_reads, last_stats_time, consumption_sum, st) ==
    UnitLoop(GroupByUnit(all_reads), last_stats_time, consumption_sum, st, <<>>)

(***************************************************************************)
(* Insertion passes of one primary statistic id.                           *)
(***************************************************************************)
IdlePass ==
    [last_stats_time |-> Nothing, consumption_sum |-> 0,
     date |-> 0, hour |-> 0, newest |-> 0]

InsIdle ==
    /\ family = "individual"
    /\ store = {}
    /\ now = 0
    /\ ipc = "idle"
    /\ pass = IdlePass
    /\ outcome = "none"

InsInit ==
    /\ family \in {"individual", "quarter"}
    /\ store = {}
    /\ now = 0
    /\ ipc = "idle"
    /\ pass = IdlePass
    /\ outcome = "none"

\* Time passes between two passes.
Tick ==
    /\ ipc = "idle"
    /\ now + PollInterval <= MaxNow
    /\ now' = now + PollInterval
    /\ UNCHANGED <<family, store, ipc, pass, outcome, notIns>>

\* The first date of the pass's date sequence.
FirstDateFromEnd(last_stats_time, earliest) ==
    IF last_stats_time = Nothing THEN earliest
    ELSE DateOf(last_stats_time + SecondsPerHour)
FirstDate(last_stats_time, earliest) ==
    IF last_stats_time = Nothing THEN earliest ELSE DateOf(last_stats_time)

\* newest_date_online = min(now.date(), area.data_available_until + 1 day)
NewestDateToday(today, until) == today
NewestDateOnline(today, until) == Min(today, until + 1)

\* The pass goes on to `date`, or ends when the dates are exhausted.
Advance(p, date, hour) ==
    IF date <= p.newest
    THEN /\ ipc' = "dates"
         /\ pass' = [p EXCEPT !.date = date, !.hour = hour]
         /\ outcome' = "running"
    ELSE /\ ipc' = "idle"
         /\ pass' = IdlePass
         /\ outcome' = "completed"

\* _insert_individual_consumption_statistics / _insert_quarter_photovoltaic_
\* statistics up to the first remote query: _find_last_stats, the freshness
\* gate and the date sequence. `earliest` is area.data_available_since
\* (individual) or what _find_earliest_photovoltaic_data returns (quarter);
\* `until` is area.data_available_until.
BeginInsert ==
    /\ ipc = "idle"
    /\ LET r == find_last_stats(store, now)
       IN  IF ~r.expecting_newer_data
           THEN /\ outcome' = "skipped"
                /\ UNCHANGED <<ipc, pass>>
           ELSE \E earliest \in (0..DateOf(now)) \cup {Nothing}, until \in Days :
                  IF family = "quarter" /\ r.last_stats_time = Nothing
                     /\ earliest = Nothing
                  THEN \* raise UpdateFailed
                       /\ outcome' = "update_failed"
                       /\ UNCHANGED <<ipc, pass>>
                  ELSE /\ earliest # Nothing
                       /\ Advance([last_stats_time |-> r.last_stats_time,
                                   consumption_sum |-> r.consumption_sum,
                                   date |-> 0, hour |-> 0,
                                   newest |-> IF family = "individual"
                                              THEN NewestDateOnline(DateOf(now), until)
                                              ELSE DateOf(now)],
                                  FirstDate(r.last_stats_time, earliest), 0)
    /\ UNCHANGED <<family, store, now, notIns>>

\* The remote's response for pass.date is processed, one hour of the day
\* per step: its groups, the points they make, the store.
ProcessHour ==
    /\ ipc = "dates"
    /\ \E all_reads \in HourReads(StartOfHour(pass.date, pass.hour), now) :
         LET r == InsertReads(all_reads, pass.last_stats_time,
                              pass.consumption_sum, store)
             p == [pass EXCEPT !.consumption_sum = r.consumption_sum]
         IN  /\ store' = r.store
             /\ IF pass.hour + 1 < HoursPerDay
                THEN Advance(p, pass.date, pass.hour + 1)
                ELSE Advance(p, pass.date + 1, 0)
    /\ UNCHANGED <<family, now, notIns>>

\* The remote query for pass.date raises: the exception ends the pass.
FetchRaises ==
    /\ ipc = "dates"
    /\ pass.hour = 0
    /\ ipc' = "idle"
    /\ pass' = IdlePass
    /\ outcome' = "aborted"
    /\ UNCHANGED <<family, store, now, notIns>>

(***************************************************************************)
(* The hourly aggregation on one response.                                 *)
(***************************************************************************)
AggIdle ==
    /\ aggIn = [reads |-> <<>>, last_stats_time |-> Nothing, sum |-> 0]
    /\ aggOut = <<>>

Hours == 0..(MaxDay * HoursPerDay - 1)

\* An hour fully reported, in kWh: every slot a reading of the slot's length.
FullHour(h0) ==
    [i \in 1..SlotsPerHour |->
        [start |-> h0 + (i - 1) * SlotLen, period |-> SlotLen,
         value |-> MaxValue, unit |-> "kWh"]]

\* The response's readings: those of one hour, after nothing or after the
\* fully reported hour before it of the same day.
AggInit ==
    /\ \E h \in Hours, lst \in {Nothing} \cup {k * SecondsPerHour : k \in Hours},
          sum \in {0, MaxValue + 1} :
         \E reads \in HourReads(h * SecondsPerHour, MaxNow),
            before \in {<<>>} \cup (IF HourOf(h * SecondsPerHour) > 0
                                   THEN {FullHour((h - 1) * SecondsPerHour)}
                                   ELSE {}) :
            aggIn = [reads |-> before \o reads, last_stats_time |-> lst, sum |-> sum]
    /\ aggOut = <<>>

Aggregate ==
    /\ aggOut = <<>>
    /\ aggOut' = << InsertReads(aggIn.reads, aggIn.last_stats_time, aggIn.sum, {}) >>
    /\ UNCHANGED <<aggIn, notAgg>>

(***************************************************************************)
(* _find_last_stats on one store at one time.                              *)
(***************************************************************************)
GateIdle ==
    /\ gateIn = [store |-> {}, now |-> 0]
    /\ gateOut = <<>>

\* A store holding one point per hour of hs, each of state 1.
PointsAt(hs) ==
    { [start |-> h * SecondsPerHour, state |-> 1,
       sum |-> Cardinality({k \in hs : k <= h})] : h \in hs }

\* Times around the hours: on the hour, a second later, and around a
\* quarter past (75 minutes after the end of the hour before).
GateNows ==
    { k * SecondsPerHour + d :
        k \in 0..(MaxDay * HoursPerDay + 2), d \in {0, 1, 899, 900, 901, 3599} }

GateInit ==
    /\ gateIn \in [store : {PointsAt(hs) : hs \in SUBSET Hours}, now : GateNows]
    /\ gateOut = <<>>

FindLastStats ==
    /\ gateOut = <<>>
    /\ gateOut' = << find_last_stats(gateIn.store, gateIn.now) >>
    /\ UNCHANGED <<gateIn, notGate>>

(***************************************************************************)
(* bisect (_util.py).                                                      *)
(***************************************************************************)
BisIdle ==
    /\ a = <<>>
    /\ lo = 0
    /\ hi = 0
    /\ bpc = "returned"
    /\ berr = "none"

BoolSeqs == UNION { [1..n -> BOOLEAN] : n \in 0..MaxLen }

\* lo = 0; hi = len(a)
BisInit ==
    /\ a \in BoolSeqs
    /\ lo = 0
    /\ hi = Len(a)
    /\ bpc = "loop"
    /\ berr = "none"

\* One iteration of `while lo < hi`: mid, the awaited key(a[mid]), and the
\* new bounds.
NarrowSwapped(l, h, key_true) ==
    LET mid == (l + h) \div 2
    IN  IF key_true THEN [lo |-> mid + 1, hi |-> h] ELSE [lo |-> l, hi |-> mid]
Narrow(l, h, key_true) ==
    LET mid == (l + h) \div 2
    IN  IF key_true THEN [lo |-> l, hi |-> mid] ELSE [lo |-> mid + 1, hi |-> h]

BisectStep ==
    /\ bpc = "loop"
    /\ lo < hi
    /\ LET r == Narrow(lo, hi, a[((lo + hi) \div 2) + 1])
       IN  /\ lo' = r.lo
           /\ hi' = r.hi
    /\ UNCHANGED <<a, bpc, berr, notBis>>

\* `if lo == len(a)`: the search ran off the end of a.
FoundAlways(l, n) == FALSE
NotFound(l, n) == l = n

\* An exception leaving a coroutine: a StopIteration raised in the body of
\* an `async def` reaches the awaiting caller as a RuntimeError.
RaisedFromCoroutine(exc) == IF exc = "StopIteration" THEN "RuntimeError" ELSE exc

\* After the loop: raise StopIteration when lo == len(a), else return lo.
BisectEnd ==
    /\ bpc = "loop"
    /\ ~(lo < hi)
    /\ IF NotFound(lo, Len(a))
       THEN /\ bpc' = "raised"
            /\ berr' = RaisedFromCoroutine("StopIteration")
       ELSE /\ bpc' = "returned"
            /\ berr' = berr
    /\ UNCHANGED <<a, lo, hi, notBis>>

(***************************************************************************)
(* _derive_statistic: a statistic computed from a base statistic of the    *)
(* store (_insert_surplus_per_share_statistics).                           *)
(***************************************************************************)
\* transform_datapoint = lambda value: value * share_factor, where
\* share_factor = num_shares / num_shares_total; derived values are counted
\* in units of 1 / num_shares_total.
Transform(value) == value * num_shares

\* One iteration of `for base_stat in base_stats`: the new point and the
\* running sum after it.
DeriveStepNoCarry(base_stat, statistic_sum) ==
    LET new_state == IF base_stat.state = Nothing THEN Nothing
                     ELSE Transform(base_stat.state)
        F(x) == IF x # Nothing THEN Transform(x) ELSE x
    IN  [stat |-> [start |-> base_stat.start, state |-> new_state,
                   sum |-> IF new_state = Nothing THEN statistic_sum ELSE new_state,
                   min |-> F(base_stat.min), max |-> F(base_stat.max),
                   mean |-> F(base_stat.mean)],
         sum |-> IF new_state = Nothing THEN statistic_sum ELSE new_state]
DeriveStep(base_stat, statistic_sum) ==
    LET new_state == IF base_stat.state = Nothing THEN Nothing
                     ELSE Transform(base_stat.state)
        new_sum == IF base_stat.state = Nothing THEN statistic_sum
                   ELSE statistic_sum + new_state
        F(x) == IF x # Nothing THEN Transform(x) ELSE x
    IN  [stat |-> [start |-> base_stat.start, state |-> new_state, sum |-> new_sum,
                   min |-> F(base_stat.min), max |-> F(base_stat.max),
                   mean |-> F(base_stat.mean)],
         sum |-> new_sum]

RECURSIVE DeriveLoop(_, _, _)
DeriveLoop(base_stats, statistic_sum, new_stats) ==
    IF base_stats = <<>> THEN new_stats
    ELSE LET r == DeriveStep(Head(base_stats), statistic_sum)
         IN  DeriveLoop(Tail(base_stats), r.sum, Append(new_stats, r.stat))

\* The hours base points may lie at, and the clock's last value.
DerHours == 0..MaxBase
DerMaxNow == (MaxBase + 3) * SecondsPerHour

\* A row of the base statistic: its state may be null; min, max and mean
\* may be absent.
RowChoices == [state : {Nothing} \cup Values, extras : BOOLEAN]

RECURSIVE BaseRows(_, _, _)
BaseRows(hs, c, sum) ==
    IF hs = {} THEN <<>>
    ELSE LET h == CHOOSE x \in hs : \A y \in hs : x <= y
             s == IF c[h].state = Nothing THEN sum ELSE sum + c[h].state
         IN  << [start |-> h * SecondsPerHour, state |-> c[h].state, sum |-> s,
                 min |-> IF c[h].extras THEN 1 ELSE Nothing,
                 max |-> IF c[h].extras THEN MaxValue + 1 ELSE Nothing,
                 mean |-> IF c[h].extras THEN 1 ELSE Nothing] >>
             \o BaseRows(hs \ {h}, c, s)

BaseSeries ==
    UNION { {BaseRows(hs, c, 0) : c \in [hs -> RowChoices]} :
            hs \in {x \in SUBSET DerHours : Cardinality(x) <= MaxBase} }

DerInit ==
    /\ base \in BaseSeries
    /\ derived = {}
    /\ dnow = (MaxBase + 1) * SecondsPerHour
    /\ num_shares \in 1..MaxShares
    /\ dlast = <<>>

DerTick ==
    /\ dnow + SecondsPerHour <= DerMaxNow
    /\ dnow' = dnow + SecondsPerHour
    /\ UNCHANGED <<base, derived, num_shares, dlast, notDer>>

\* One call of _derive_statistic. `earliest` is what
\* _find_earliest_photovoltaic_data returns when the derived statistic has
\* no point yet. Passes are started once per update interval, so the clock
\* has moved on since the previous call.
derive_statistic ==
    /\ ~(dlast # <<>> /\ dlast[1].at = dnow)
    /\ LET r == find_last_stats(derived, dnow)
       IN  IF ~r.expecting_newer_data
           THEN /\ dlast' = << [what |-> "skipped", first |-> FALSE, at |-> dnow,
                                query_start |-> Nothing, new_stats |-> <<>>] >>
                /\ derived' = derived
           ELSE \E earliest \in (0..DateOf(dnow)) \cup {Nothing} :
                  /\ r.last_stats_time # Nothing => earliest = Nothing
                  /\ IF r.last_stats_time = Nothing /\ earliest = Nothing
                     THEN \* raise UpdateFailed
                          /\ dlast' = << [what |-> "update_failed", first |-> TRUE, at |-> dnow,
                                          query_start |-> Nothing, new_stats |-> <<>>] >>
                          /\ derived' = derived
                     ELSE LET first_date_to_query == FirstDate(r.last_stats_time, earliest)
                              query_start ==
                                  IF r.last_stats_time # Nothing THEN r.last_stats_time
                                  ELSE StartOfHour(first_date_to_query, 0)
                              base_stats ==
                                  SelectSeq(base, LAMBDA b : b.start >= query_start)
                              new_stats ==
                                  DeriveLoop(base_stats, r.consumption_sum, <<>>)
                          IN  IF base_stats = <<>>
                              THEN \* [base_statistic_id] raises KeyError
                                   /\ dlast' = << [what |-> "key_error",
                                                   first |-> r.last_stats_time = Nothing, at |-> dnow,
                                                   query_start |-> query_start,
                                                   new_stats |-> <<>>] >>
                                   /\ derived' = derived
                              ELSE /\ dlast' = << [what |-> "appended",
                                                   first |-> r.last_stats_time = Nothing, at |-> dnow,
                                                   query_start |-> query_start,
                                                   new_stats |-> new_stats] >>
                                   /\ derived' =
                                        async_add_external_statistics(derived, new_stats)
    /\ UNCHANGED <<base, dnow, num_shares, notDer>>

(***************************************************************************)
(* calculate_datapoint of IndividualSupplyFromPhotovoltaic and of          *)
(* IndividualSupplyFromGrid.                                               *)
(*                                                                         *)
(* A float is [v, e]: v the decimal value it stands for, in 0.0001, and e  *)
(* how far the double is from that decimal, in representation errors.      *)
(***************************************************************************)
\* The doubles that can stand for the decimal v; 0.0 is exact.
Doubles(v) == IF v = 0 THEN {[v |-> 0, e |-> 0]} ELSE {[v |-> v, e |-> x] : x \in -1..1}

\* self_sufficiency values, in percent
Percents == {0, 10, 25, 33, 50, 75, 100}

\* pv_supply_ratio, in percent: 0.0 when self_sufficiency is None
RatioFull(self_sufficiency) ==
    IF self_sufficiency = Nothing THEN 100 ELSE self_sufficiency
SupplyRatio(self_sufficiency) ==
    IF self_sufficiency = Nothing THEN 0 ELSE self_sufficiency

\* round(n / d, 3) for n / d in 0.001: the nearest multiple of 0.001, in
\* 0.001. round() rounds the double it is given, which lies on either side
\* of a decimal tie.
RoundToMilli(n, d) ==
    LET q == n \div d
        r == n % d
    IN  IF 2 * r < d THEN {q} ELSE IF 2 * r > d THEN {q + 1} ELSE {q, q + 1}

\* round(value * factor / 100, 3) as doubles: the product by 1.0 of a value
\* that already is a multiple of 0.001 comes back as the same double.
RoundedProduct(value, factor) ==
    IF factor = 100 /\ value.v % 10 = 0
    THEN {value}
    ELSE UNION { Doubles(10 * k) : k \in RoundToMilli(value.v * factor, 1000) }

\* electricity_consumption.value * pv_supply_ratio
PvShare(value, ratio) == RoundedProduct(value, ratio)
\* electricity_consumption.value * (1 - pv_supply_ratio)
GridShareWhole(value, ratio) == RoundedProduct(value, 100)
GridShare(value, ratio) == RoundedProduct(value, 100 - ratio)

MetIdle ==
    /\ metIn = [consumption |-> [v |-> 0, e |-> 0], self_sufficiency |-> Nothing]
    /\ metOut = <<>>

MetInit ==
    /\ metIn \in [consumption : UNION {Doubles(v) : v \in 0..MaxConsumption},
                  self_sufficiency : {Nothing} \cup Percents]
    /\ metOut = <<>>

\* Both metrics' calculate_datapoint on the same (consumption, pv).
calculate_datapoint ==
    /\ metOut = <<>>
    /\ \E pv \in PvShare(metIn.consumption, SupplyRatio(metIn.self_sufficiency)),
          grid \in GridShare(metIn.consumption, SupplyRatio(metIn.self_sufficiency)) :
         metOut' = << [pv |-> pv, grid |-> grid] >>
    /\ UNCHANGED <<metIn, notMet>>

(***************************************************************************)
(* _dates_to_insert_individual_statistics as a function of the store, the  *)
(* clock and the area, and the backfill of the dates it plans when the     *)
(* remote reports every hour of every planned date in full.                *)
(***************************************************************************)
\* `while date <= newest_date_online: yield date; date += 1 day`, listed
RECURSIVE DatesToQuery(_, _)
DatesToQuery(date, newest_date_online) ==
    IF date <= newest_date_online
    THEN <<date>> \o DatesToQuery(date + 1, newest_date_online)
    ELSE <<>>

\* A day fully reported: each of its hours as FullHour.
FullDay(date) ==
    Flatten([h \in 1..HoursPerDay |-> FullHour(StartOfHour(date, h - 1))])

PlanIdle ==
    /\ planIn = [store |-> {}, now |-> 0, since |-> 0, until |-> 0]
    /\ planOut = <<>>
    /\ planStore = <<>>
    /\ planResume = <<>>

\* Stores whose points lie in the past of `now`; the area's dates are free.
PlanInit ==
    /\ planIn \in
         {x \in [store : {PointsAt(hs) : hs \in SUBSET Hours}, now : GateNows,
                 since : 0..MaxDay, until : 0..MaxDay] :
            x.store # {} => LastPoint(x.store).start + SecondsPerHour <= x.now}
    /\ planOut = <<>>
    /\ planStore = <<>>
    /\ planResume = <<>>

dates_to_insert_individual_statistics ==
    /\ planOut = <<>>
    /\ LET r == find_last_stats(planIn.store, planIn.now)
       IN  planOut' =
             << [expecting_newer_data |-> r.expecting_newer_data,
                 dates |-> IF r.expecting_newer_data
                           THEN DatesToQuery(
                                  FirstDate(r.last_stats_time, planIn.since),
                                  NewestDateOnline(DateOf(planIn.now), planIn.until))
                           ELSE <<>>,
                 last_stats_time |-> r.last_stats_time,
                 consumption_sum |-> r.consumption_sum] >>
    /\ UNCHANGED <<planIn, planStore, planResume, notPlan>>

\* `async for date in dates_to_query` with a remote that answers every
\* planned date with FullDay.
RECURSIVE BackfillDates(_, _, _, _)
BackfillDates(dates, last_stats_time, consumption_sum, st) ==
    IF dates = <<>> THEN [store |-> st, consumption_sum |-> consumption_sum]
    ELSE LET r == InsertReads(FullDay(Head(dates)), last_stats_time,
                              consumption_sum, st)
         IN  BackfillDates(Tail(dates), last_stats_time, r.consumption_sum, r.store)

Backfill ==
    /\ planOut # <<>>
    /\ planStore = <<>>
    /\ planOut[1].expecting_newer_data
    /\ planStore' = << BackfillDates(planOut[1].dates, planOut[1].last_stats_time,
                                     planOut[1].consumption_sum, planIn.store) >>
    /\ UNCHANGED <<planIn, planOut, planResume, notPlan>>

\* One whole pass of _insert_individual_consumption_statistics over store
\* `st` at time `nw`, the remote answering every planned date with FullDay:
\* the anchor and the running sum are read from the store.
CompletePass(st, nw) ==
    LET r == find_last_stats(st, nw)
    IN  IF ~r.expecting_newer_data
        THEN [ran |-> FALSE, store |-> st]
        ELSE [ran |-> TRUE,
              store |-> BackfillDates(
                          DatesToQuery(FirstDate(r.last_stats_time, planIn.since),
                                       NewestDateOnline(DateOf(nw), planIn.until)),
                          r.last_stats_time, r.consumption_sum, st).store]

\* The times of a later pass
ResumeNows ==
    {planIn.now}
    \cup {n \in {k * SecondsPerHour + PollInterval : k \in 0..(MaxDay * HoursPerDay + 2)} :
            n >= planIn.now}

\* The planned pass is aborted by the remote query of its (k + 1)-th date
\* raising, after the first k dates were processed; a later pass runs at
\* `later`. Recorded next to it: what one pass from the original store would
\* have left at that time.
AbortAndResume ==
    /\ planOut # <<>>
    /\ planResume = <<>>
    /\ planOut[1].expecting_newer_data
    /\ \E k \in 0..(Len(planOut[1].dates) - 1), later \in ResumeNows :
         LET aborted == BackfillDates(SubSeq(planOut[1].dates, 1, k),
                                      planOut[1].last_stats_time,
                                      planOut[1].consumption_sum, planIn.store).store
             resumed == CompletePass(aborted, later)
         IN  planResume' = << [processed |-> k, later |-> later, aborted |-> aborted,
                               complete |-> resumed.ran, resumed |-> resumed.store,
                               single |-> CompletePass(planIn.store, later).store] >>
    /\ UNCHANGED <<planIn, planOut, planStore, notPlan>>

(***************************************************************************)
(* IndividualCalculatedMetric.get_daily_datapoints for one day: pairing    *)
(* the area's electricity consumption with the site's photovoltaic data,   *)
(* hour by hour. A datapoint is recorded as what calculate_datapoint is    *)
(* given: start, period, the consumption's value and unit and the          *)
(* self-sufficiency, a fraction num / den (den = 0: None).                 *)
(***************************************************************************)
HalfHour == SecondsPerHour \div 2

ConsumptionReading(start, period, unit) ==
    [start |-> start, period |-> period, value |-> 1, unit |-> unit]

\* The electricity readings of the hour starting at h0: none, the whole
\* hour, its first half, or both halves; units may differ between readings.
ConsHourChoices(h0) ==
    {<<>>, <<ConsumptionReading(h0, SecondsPerHour, "kWh")>>}
    \cup {<<ConsumptionReading(h0, HalfHour, u)>> : u \in Units}
    \cup {<<ConsumptionReading(h0, HalfHour, u1),
            ConsumptionReading(h0 + HalfHour, HalfHour, u2)>> : u1, u2 \in Units}

\* self_sufficiency and own_consumption of a photovoltaic reading, in %
Percentages ==
    {[ss |-> Nothing, oc |-> Nothing], [ss |-> 50, oc |-> 100], [ss |-> 50, oc |-> Nothing]}

PvReading(start, period, pc) ==
    [start |-> start, period |-> period,
     self_sufficiency |-> pc.ss, own_consumption |-> pc.oc]

\* The photovoltaic readings of the hour starting at h0: none, the whole
\* hour, either half, or both halves.
PvHourChoices(h0) ==
    {<<>>}
    \cup {<<PvReading(h0, SecondsPerHour, pc)>> : pc \in Percentages}
    \cup {<<PvReading(h0, HalfHour, pc)>> : pc \in Percentages}
    \cup {<<PvReading(h0 + HalfHour, HalfHour, pc)>> : pc \in Percentages}
    \cup {<<PvReading(h0, HalfHour, pc1), PvReading(h0 + HalfHour, HalfHour, pc2)>> :
            pc1, pc2 \in Percentages}

\* zip_measurements(m1, m2, strict=strict), consumed whole: the tuples, or
\* the ValueError of the first pair whose start or period differ (or, when
\* strict, of zip running out of one series first). Without strict, zip
\* stops at the end of the shorter series.
zip_measurements(m1, m2, strict) ==
    LET n == Min(Len(m1), Len(m2))
    IN  IF \/ \E i \in 1..n : m1[i].start # m2[i].start \/ m1[i].period # m2[i].period
           \/ strict /\ Len(m1) # Len(m2)
        THEN [err |-> "ValueError", pairs |-> <<>>]
        ELSE [err |-> "none", pairs |-> [i \in 1..n |-> <<m1[i], m2[i]>>]]

\* all_the_same(things): next() on an empty iterator raises StopIteration,
\* different items raise ValueError.
all_the_same(things) ==
    IF things = <<>> THEN "StopIteration"
    ELSE IF \E i \in 1..Len(things) : things[i] # things[1] THEN "ValueError"
    ELSE "none"

Quantity(value) == [num |-> value, den |-> 1]
NoQuantity == [num |-> 0, den |-> 0]

\* What calculate_datapoint is called with.
Datapoint(start, period, consumption, self_sufficiency) ==
    [start |-> start, period |-> period, value |-> consumption.value,
     unit |-> consumption.unit, self_sufficiency |-> self_sufficiency]

RECURSIVE SumOrHundred(_, _)
SumOrHundred(pv_stats, field) ==
    IF pv_stats = <<>> THEN 0
    ELSE (IF Head(pv_stats)[field] # Nothing THEN Head(pv_stats)[field] ELSE 100)
         + SumOrHundred(Tail(pv_stats), field)

\* The `except ValueError` branch: one aggregate for the hour, or the error
\* raised while building it.
AggregateFallback(consumptions, pv_stats) ==
    LET cons_units == all_the_same([i \in 1..Len(consumptions) |-> consumptions[i].unit])
        present(field) == SelectSeq(pv_stats, LAMBDA pv : pv[field] # Nothing)
        oc_units == all_the_same([i \in 1..Len(present("own_consumption")) |-> "%"])
        ss_units == all_the_same([i \in 1..Len(present("self_sufficiency")) |-> "%"])
        err == IF cons_units # "none" THEN cons_units
               ELSE IF oc_units # "none" THEN oc_units
               ELSE ss_units
        aggregate_start == consumptions[1].start - (consumptions[1].start % SecondsPerHour)
    IN  IF err # "none"
        THEN [err |-> RaisedFromCoroutine(err), dps |-> <<>>]
        ELSE [err |-> "none",
              dps |-> << Datapoint(aggregate_start, SecondsPerHour,
                                   [value |-> SumValues(consumptions),
                                    unit |-> consumptions[1].unit],
                                   [num |-> SumOrHundred(pv_stats, "self_sufficiency"),
                                    den |-> Len(pv_stats)]) >>]

\* The body of `for hour in range(last_hour + 1)`.
HourDatapoints(consumptions, pv_stats) ==
    IF consumptions = <<>> \/ pv_stats = <<>>
    THEN [err |-> "none", dps |-> <<>>]
    ELSE LET z == zip_measurements(consumptions, pv_stats, FALSE)
         IN  IF z.err = "ValueError"
             THEN AggregateFallback(consumptions, pv_stats)
             ELSE [err |-> "none",
                   dps |-> [i \in 1..Len(z.pairs) |->
                              Datapoint(z.pairs[i][1].start, z.pairs[i][1].period,
                                        z.pairs[i][1],
                                        IF z.pairs[i][2].self_sufficiency = Nothing
                                        THEN NoQuantity
                                        ELSE Quantity(z.pairs[i][2].self_sufficiency))]]

DayHours == 0..(HoursPerDay - 1)

\* max(by_hour.keys(), default=0)
MaxKey(by_hour) ==
    LET keys == {h \in DayHours : by_hour[h] # <<>>}
    IN  IF keys = {} THEN 0 ELSE CHOOSE h \in keys : \A k \in keys : k <= h

RECURSIVE HoursLoop(_, _, _)
HoursLoop(hour, last_hour, datapoints) ==
    IF hour > last_hour THEN [raised |-> "none", datapoints |-> datapoints]
    ELSE LET r == HourDatapoints(dpIn.cons[hour], dpIn.pv[hour])
         IN  IF r.err # "none" THEN [raised |-> r.err, datapoints |-> <<>>]
             ELSE HoursLoop(hour + 1, last_hour, datapoints \o r.dps)

DpIdle ==
    /\ dpIn = [cons |-> [h \in DayHours |-> <<>>], pv |-> [h \in DayHours |-> <<>>]]
    /\ dpOut = <<>>

DpInit ==
    /\ \E cons \in [DayHours -> UNION {ConsHourChoices(h * SecondsPerHour) : h \in DayHours}],
          pv \in [DayHours -> UNION {PvHourChoices(h * SecondsPerHour) : h \in DayHours}] :
         /\ \A h \in DayHours :
              /\ cons[h] \in ConsHourChoices(h * SecondsPerHour)
              /\ pv[h] \in PvHourChoices(h * SecondsPerHour)
         /\ dpIn = [cons |-> cons, pv |-> pv]
    /\ dpOut = <<>>

get_daily_datapoints ==
    /\ dpOut = <<>>
    /\ dpOut' = << HoursLoop(0, Min(MaxKey(dpIn.cons), MaxKey(dpIn.pv)), <<>>) >>
    /\ UNCHANGED <<dpIn, notDp>>

(***************************************************************************)
(* _find_earliest_datapoint and the quarter planner's use of it for a      *)
(* statistic with no recorded point. A month's data is the set of its days *)
(* that have a reading; remote queries are numbered in the order they are  *)
(* made, and query number edIn.fail raises (0: none does).                 *)
(***************************************************************************)
MonthData == SUBSET (1..DaysPerMonth)

\* The calendar date of day d of the month at (0-based) index m of `months`
DateInMonth(m, d) == m * DaysPerMonth + (d - 1)

\* sorted(timestamps)[0].date()
LatestDate(m, days) ==
    DateInMonth(m, CHOOSE d \in days : \A e \in days : e <= d)
EarliestDate(m, days) ==
    DateInMonth(m, CHOOSE d \in days : \A e \in days : d <= e)

\* bisect(months, has_timestamps): q remote queries were made so far
RECURSIVE BisectMonths(_, _, _)
BisectMonths(l, h, q) ==
    IF l < h
    THEN IF edIn.fail = q + 1
         THEN [err |-> "OoconeError", lo |-> l, queries |-> q + 1]
         ELSE LET r == Narrow(l, h, edIn.months[((l + h) \div 2) + 1] # {})
              IN  BisectMonths(r.lo, r.hi, q + 1)
    ELSE IF NotFound(l, Len(edIn.months))
         THEN [err |-> RaisedFromCoroutine("StopIteration"), lo |-> l, queries |-> q]
         ELSE [err |-> "none", lo |-> l, queries |-> q]

\* _find_earliest_datapoint: a date, None, or the exception that leaves it
find_earliest_datapoint ==
    LET b == BisectMonths(0, Len(edIn.months), 0)
    IN  IF b.err # "none"
        THEN [raised |-> "none", date |-> Nothing, queries |-> b.queries]
        ELSE IF edIn.fail = b.queries + 1
        THEN [raised |-> "OoconeError", date |-> Nothing, queries |-> b.queries + 1]
        ELSE IF edIn.months[b.lo + 1] = {}
        THEN [raised |-> "IndexError", date |-> Nothing, queries |-> b.queries + 1]
        ELSE [raised |-> "none", date |-> EarliestDate(b.lo, edIn.months[b.lo + 1]),
              queries |-> b.queries + 1]

EdIdle ==
    /\ edIn = [months |-> <<>>, fail |-> 0]
    /\ edOut = <<>>

EdInit ==
    /\ edIn \in [months : UNION {[1..n -> MonthData] : n \in 1..MaxMonths},
                 fail : 0..(MaxMonths + 1)]
    /\ edOut = <<>>

\* get_dates_to_query of _dates_to_insert_quarter_pv_statistics up to its
\* first yield, with last_stats_time None: the first date, or the exception.
get_dates_to_query ==
    /\ edOut = <<>>
    /\ LET r == find_earliest_datapoint
       IN  edOut' = << IF r.raised = "none" /\ r.date = Nothing
                       THEN [r EXCEPT !.raised = "UpdateFailed"]
                       ELSE r >>
    /\ UNCHANGED <<edIn, notEd>>

(***************************************************************************)
(* EnocooUpdateCoordinator._async_update_data: one call per polling cycle  *)
(* of the host. The three primary fetches run in order inside one try;     *)
(* trigger_insertion is awaited after it.                                  *)
(***************************************************************************)
RemoteErrors == {"AuthenticationFailed", "OoconeError"}

\* The except clauses: AuthenticationFailed is matched first.
TranslateAllToUpdateFailed(exc) == "UpdateFailed"
Translate(exc) ==
    IF exc = "AuthenticationFailed" THEN "ConfigEntryAuthFailed"
    ELSE "UpdateFailed"

PollIdle ==
    /\ upc = "idle"
    /\ daysBack = 0
    /\ cycles = <<>>

Current == cycles[Len(cycles)]
SetCurrent(c) == [cycles EXCEPT ![Len(cycles)] = c]

\* The host calls _async_update_data.
StartCycle ==
    /\ upc = "idle"
    /\ Len(cycles) < MaxCycles
    /\ upc' = "traffic_light"
    /\ daysBack' = 0
    /\ cycles' = Append(cycles, [remote |-> "none", outcome |-> "running",
                                 fetched |-> {}, triggers |-> 0])
    /\ UNCHANGED notPoll

\* An awaited remote call raises: the except clauses end the cycle.
Raise(exc) ==
    /\ upc' = "idle"
    /\ daysBack' = 0
    /\ cycles' = SetCurrent([Current EXCEPT !.remote = exc, !.outcome = Translate(exc)])

\* await self.enocoo.get_traffic_light_status()
GetTrafficLightStatus ==
    /\ upc = "traffic_light"
    /\ \/ /\ upc' = "meter_table"
          /\ cycles' = SetCurrent([Current EXCEPT !.fetched = @ \cup {"traffic_light_status"}])
          /\ daysBack' = daysBack
       \/ \E exc \in RemoteErrors : Raise(exc)
    /\ UNCHANGED notPoll

\* await self.enocoo.get_meter_table(...)
GetMeterTable ==
    /\ upc = "meter_table"
    /\ \/ /\ upc' = "pv"
          /\ cycles' = SetCurrent([Current EXCEPT !.fetched = @ \cup {"meter_table"}])
          /\ daysBack' = daysBack
       \/ \E exc \in RemoteErrors : Raise(exc)
    /\ UNCHANGED notPoll

\* _get_latest_photovoltaic_data: today, then up to two days back; the
\* first non-empty answer's last reading, or None after three empty ones.
GetLatestPhotovoltaicData ==
    /\ upc = "pv"
    /\ \/ \E empty \in BOOLEAN :
            IF empty /\ daysBack + 1 < 3
            THEN /\ daysBack' = daysBack + 1
                 /\ UNCHANGED <<upc, cycles>>
            ELSE /\ upc' = "trigger"
                 /\ daysBack' = 0
                 /\ cycles' = SetCurrent([Current EXCEPT
                                 !.fetched = @ \cup {"current_photovoltaic_data"}])
       \/ \E exc \in RemoteErrors : Raise(exc)
    /\ UNCHANGED notPoll

\* await self.statistics_inserter.trigger_insertion(); return dashboard_data
TriggerAndReturn ==
    /\ upc = "trigger"
    /\ upc' = "idle"
    /\ daysBack' = daysBack
    /\ cycles' = SetCurrent([Current EXCEPT !.triggers = @ + 1, !.outcome = "returned"])
    /\ UNCHANGED notPoll

(***************************************************************************)
(* Specifications.                                                         *)
(***************************************************************************)
Next ==
    \/ trigger_insertion
    \/ \E t \in Tasks : StartTask(t)
    \/ \E t \in Tasks : ResumeWaiter(t)
    \/ \E t \in Tasks : GetAreas(t)
    \/ \E t \in Tasks : RunJob(t)
    \/ \E t \in Tasks : PassRaises(t)

DerIdle ==
    /\ base = <<>>
    /\ derived = {}
    /\ dnow = 0
    /\ num_shares = 1
    /\ dlast = <<>>

Init == OrchInit /\ InsIdle /\ AggIdle /\ GateIdle /\ DerIdle /\ BisIdle /\ MetIdle /\ PlanIdle /\ DpIdle /\ EdIdle /\ PollIdle

Spec == Init /\ [][Next]_vars

OrchIdle ==
    /\ OrchInit
    /\ subentries = <<>>

NextInsert ==
    \/ Tick
    \/ BeginInsert
    \/ ProcessHour
    \/ FetchRaises

InitInsert == OrchIdle /\ InsInit /\ AggIdle /\ GateIdle /\ DerIdle /\ BisIdle /\ MetIdle /\ PlanIdle /\ DpIdle /\ EdIdle /\ PollIdle

SpecInsert == InitInsert /\ [][NextInsert]_vars

NextAgg == Aggregate

InitAgg == OrchIdle /\ InsIdle /\ AggInit /\ GateIdle /\ DerIdle /\ BisIdle /\ MetIdle /\ PlanIdle /\ DpIdle /\ EdIdle /\ PollIdle

SpecAgg == InitAgg /\ [][NextAgg]_vars

InitGate == OrchIdle /\ InsIdle /\ AggIdle /\ GateInit /\ DerIdle /\ BisIdle /\ MetIdle /\ PlanIdle /\ DpIdle /\ EdIdle /\ PollIdle

NextGate == FindLastStats

SpecGate == InitGate /\ [][NextGate]_vars

InitBisect == OrchIdle /\ InsIdle /\ AggIdle /\ GateIdle /\ DerIdle /\ BisInit /\ MetIdle /\ PlanIdle /\ DpIdle /\ EdIdle /\ PollIdle

NextBisect ==
    \/ BisectStep
    \/ BisectEnd

SpecBisect == InitBisect /\ [][NextBisect]_vars

InitDerive == OrchIdle /\ InsIdle /\ AggIdle /\ GateIdle /\ DerInit /\ BisIdle /\ MetIdle /\ PlanIdle /\ DpIdle /\ EdIdle /\ PollIdle

NextDerive ==
    \/ DerTick
    \/ derive_statistic

SpecDerive == InitDerive /\ [][NextDerive]_vars

InitMetric == OrchIdle /\ InsIdle /\ AggIdle /\ GateIdle /\ DerIdle /\ BisIdle /\ MetInit /\ PlanIdle /\ DpIdle /\ EdIdle /\ PollIdle

NextMetric == calculate_datapoint

SpecMetric == InitMetric /\ [][NextMetric]_vars

InitPlan ==
    OrchIdle /\ InsIdle /\ AggIdle /\ GateIdle /\ DerIdle /\ BisIdle /\ MetIdle /\ PlanInit
    /\ DpIdle /\ EdIdle /\ PollIdle

NextPlan ==
    \/ dates_to_insert_individual_statistics
    \/ Backfill
    \/ AbortAndResume

SpecPlan == InitPlan /\ [][NextPlan]_vars

InitDaily ==
    OrchIdle /\ InsIdle /\ AggIdle /\ GateIdle /\ DerIdle /\ BisIdle /\ MetIdle /\ PlanIdle
    /\ DpInit /\ EdIdle /\ PollIdle

NextDaily == get_daily_datapoints

SpecDaily == InitDaily /\ [][NextDaily]_vars

InitDiscovery ==
    OrchIdle /\ InsIdle /\ AggIdle /\ GateIdle /\ DerIdle /\ BisIdle /\ MetIdle /\ PlanIdle
    /\ DpIdle /\ EdInit /\ PollIdle

NextDiscovery == get_dates_to_query

SpecDiscovery == InitDiscovery /\ [][NextDiscovery]_vars

InitPoll ==
    OrchIdle /\ InsIdle /\ AggIdle /\ GateIdle /\ DerIdle /\ BisIdle /\ MetIdle /\ PlanIdle
    /\ DpIdle /\ EdIdle /\ PollIdle

NextPoll ==
    \/ StartCycle
    \/ GetTrafficLightStatus
    \/ GetMeterTable
    \/ GetLatestPhotovoltaicData
    \/ TriggerAndReturn

SpecPoll == InitPoll /\ [][NextPoll]_vars

(***************************************************************************)
(* Properties of the orchestrator (Spec).                                  *)
(***************************************************************************)
\* C2: under every interleaving of trigger calls, task starts and pass
\* steps, at most one pass is inside the lock-guarded section.
C2_MutualExclusion ==
    Cardinality({t \in Tasks : InCriticalSection(t)}) <= 1

\* A pass is under way inside the section while another task waits for the
\* lock.
C2_Witness ==
    \E t1, t2 \in Tasks :
        /\ InCriticalSection(t1)
        /\ passPos >= 1
        /\ taskState[t2] = "waiting"

C4_AtMostOnePending ==
    /\ Cardinality({t \in Tasks : taskState[t] \in {"created", "waiting", "woken"}}) <= 1
    /\ waiters = <<>>

\* C5: when a pass ends, by completing or by raising, the lock is released
\* in the same step; the lock is held only while a pass is running; and a
\* trigger call that finds the lock free creates a task.
C5_LockReleased ==
    [][ /\ \A t \in Tasks :
             (taskState[t] = "running" /\ taskState'[t] \in {"done", "failed"})
                => ~locked'
        /\ locked' => \E t \in Tasks : taskState'[t] = "running"
        /\ (calls' = calls + 1 /\ ~locked) => taskState'[calls + 1] = "created"
      ]_vars

\* A pass raised, and a task created by a later trigger is running a pass.
C5_Witness ==
    \E t1, t2 \in Tasks :
        /\ t1 < t2
        /\ taskState[t1] = "failed"
        /\ taskState[t2] = "running"
        /\ locked

(***************************************************************************)
(* Properties of the insertion passes (SpecInsert).                        *)
(***************************************************************************)
\* The sum of the stored point preceding p, or 0 when p is the first.
PrecedingSum(st, p) ==
    LET earlier == {q \in st : q.start < p.start}
    IN  IF earlier = {} THEN 0 ELSE LastPoint(earlier).sum

\* C1: every point of a primary statistic has sum = the sum of the point
\* before it (0 for the first point) + its own state; this holds across
\* passes, dates and unit groups.
C1_RunningSum ==
    \A p \in store : p.sum = PrecedingSum(store, p) + p.state

\* A pass that found history has appended two points after its anchor, on
\* different dates, each continuing the sum before it.
C1_Witness ==
    /\ ipc = "dates"
    /\ pass.last_stats_time # Nothing
    /\ \E p, q \in store :
         /\ p.start > pass.last_stats_time
         /\ q.start > p.start
         /\ DateOf(q.start) > DateOf(p.start)
         /\ p.state > 0
         /\ q.state > 0
         /\ p.sum > p.state
         /\ q.sum = p.sum + q.state

(***************************************************************************)
(* Properties of the hourly aggregation (SpecAgg).                         *)
(***************************************************************************)
\* The hour groups of the response, in the order the loops visit them.
AggGroups ==
    LET ug == GroupByUnit(aggIn.reads)
    IN  Flatten([i \in 1..Len(ug) |-> GroupByHour(ug[i])])

AfterAnchor(g) ==
    aggIn.last_stats_time = Nothing \/ g[1].start > aggIn.last_stats_time

WholeHour(g) == SumPeriods(g) = 60 * 60

\* The running sum before the i-th group: the sum the aggregation started
\* from plus the values of the earlier groups that made a point.
RECURSIVE SumBefore(_)
SumBefore(i) ==
    IF i = 1 THEN aggIn.sum
    ELSE LET g == AggGroups[i - 1]
         IN  SumBefore(i - 1)
             + (IF AfterAnchor(g) /\ WholeHour(g) THEN SumValues(g) ELSE 0)

PointsStartingAt(emitted, start) ==
    {k \in 1..Len(emitted) : emitted[k].start = start}

\* C8: an hour group that starts after the anchor and whose periods sum to
\* exactly one hour makes exactly one point: start = its first reading's
\* start, state = the sum v of its values, sum = the running sum before the
\* group + v.
C8_WholeHourEmitsOnePoint ==
    aggOut # <<>> =>
        \A i \in 1..Len(AggGroups) :
            LET g == AggGroups[i]
                at == PointsStartingAt(aggOut[1].emitted, g[1].start)
            IN  (AfterAnchor(g) /\ WholeHour(g)) =>
                    /\ Cardinality(at) = 1
                    /\ \A k \in at :
                         aggOut[1].emitted[k] =
                            [start |-> g[1].start, state |-> SumValues(g),
                             sum |-> SumBefore(i) + SumValues(g)]
                    /\ \E p \in aggOut[1].store :
                         /\ p.start = g[1].start
                         /\ p.state = SumValues(g)

\* Two whole hours after the anchor: the second's point continues from the
\* first's, which continues from a non-zero stored sum.
C8_Witness ==
    /\ aggOut # <<>>
    /\ aggIn.last_stats_time # Nothing
    /\ aggIn.sum > 0
    /\ Len(aggOut[1].emitted) = 2
    /\ aggOut[1].emitted[2].state = SlotsPerHour * MaxValue
    /\ aggOut[1].emitted[2].sum = aggIn.sum + 2 * SlotsPerHour * MaxValue

\* C9: an hour group whose periods do not sum to exactly one hour makes no
\* point and leaves the running sum as it was: the final running sum is the
\* initial one plus the values of the whole-hour groups after the anchor.
C9_PartialHourEmitsNothing ==
    aggOut # <<>> =>
        /\ \A i \in 1..Len(AggGroups) :
              ~WholeHour(AggGroups[i]) =>
                  PointsStartingAt(aggOut[1].emitted, AggGroups[i][1].start) = {}
        /\ aggOut[1].consumption_sum = SumBefore(Len(AggGroups) + 1)
        /\ Len(aggOut[1].emitted) =
              Cardinality({i \in 1..Len(AggGroups) :
                              AfterAnchor(AggGroups[i]) /\ WholeHour(AggGroups[i])})

\* Hour groups after the anchor a second short of, and a second over, one
\* hour were aggregated: nothing was emitted, the sum is unchanged.
C9_Witness ==
    /\ aggOut # <<>>
    /\ aggOut[1].emitted = <<>>
    /\ aggOut[1].consumption_sum = aggIn.sum
    /\ aggIn.sum > 0
    /\ \E i \in 1..Len(AggGroups) :
         /\ AfterAnchor(AggGroups[i])
         /\ SumPeriods(AggGroups[i]) \in {60 * 60 - 1, 60 * 60 + 1}
         /\ SumValues(AggGroups[i]) > 0

(***************************************************************************)
(* Properties of the freshness gate (SpecGate).                            *)
(***************************************************************************)
\* C6: with a last point ending at T, expecting_newer_data is false for
\* T <= now <= T + 75 minutes and true for now > T + 75 minutes; with no
\* point it is true for every now.
C6_FreshnessGate ==
    gateOut # <<>> =>
        IF gateIn.store = {}
        THEN gateOut[1].expecting_newer_data
        ELSE LET T == LastPoint(gateIn.store).start + 60 * 60
             IN  /\ (T <= gateIn.now /\ gateIn.now <= T + 75 * 60)
                        => ~gateOut[1].expecting_newer_data
                 /\ gateIn.now > T + 75 * 60 => gateOut[1].expecting_newer_data

\* The gate was evaluated exactly 75 minutes after the last point's end,
\* and answered that nothing newer is expected.
C6_Witness ==
    /\ gateOut # <<>>
    /\ Cardinality(gateIn.store) >= 2
    /\ gateIn.now = LastPoint(gateIn.store).start + 60 * 60 + 75 * 60
    /\ ~gateOut[1].expecting_newer_data

(***************************************************************************)
(* Properties of the derived statistic (SpecDerive).                       *)
(***************************************************************************)
\* The base points a pass reads: those starting at or after query_start.
BaseFrom(query_start) == SelectSeq(base, LAMBDA b : b.start >= query_start)

\* The sum of f(state) over the non-null states of the first i rows.
RECURSIVE SumOfTransformed(_, _)
SumOfTransformed(rows, i) ==
    IF i = 0 THEN 0
    ELSE SumOfTransformed(rows, i - 1)
         + (IF rows[i].state = Nothing THEN 0 ELSE rows[i].state * num_shares)

\* C7: in the first pass of a derived statistic (no derived point yet) over
\* base points of states s1..sn, the appended points have the base points'
\* starts, states f(s1)..f(sn) and the cumulative sums f(s1), f(s1)+f(s2),
\* ...; a base point of null state gives a null state and leaves the sum as
\* it was; min, max and mean, where the base point has them, are f of the
\* base point's. Here f(x) = x * num_shares.
C7_DerivedFirstPass ==
    (dlast # <<>> /\ dlast[1].what = "appended" /\ dlast[1].first) =>
        LET rows == BaseFrom(dlast[1].query_start)
            out == dlast[1].new_stats
            f(x) == IF x = Nothing THEN Nothing ELSE x * num_shares
        IN  /\ Len(out) = Len(rows)
            /\ \A i \in 1..Len(rows) :
                 /\ out[i].start = rows[i].start
                 /\ out[i].state = f(rows[i].state)
                 /\ out[i].sum = SumOfTransformed(rows, i)
                 /\ out[i].min = f(rows[i].min)
                 /\ out[i].max = f(rows[i].max)
                 /\ out[i].mean = f(rows[i].mean)
            /\ derived = {out[i] : i \in 1..Len(out)}

\* A first pass over three base points, the middle one of null state, one
\* with min, max and mean, with a transform that is not the identity.
C7_Witness ==
    /\ dlast # <<>>
    /\ dlast[1].what = "appended"
    /\ dlast[1].first
    /\ num_shares = 2
    /\ Len(dlast[1].new_stats) = 3
    /\ dlast[1].new_stats[1].state = 2
    /\ dlast[1].new_stats[2].state = Nothing
    /\ dlast[1].new_stats[2].sum = 2
    /\ dlast[1].new_stats[3].sum = 4
    /\ dlast[1].new_stats[3].max = 2 * (MaxValue + 1)

(***************************************************************************)
(* Properties of bisect (SpecBisect).                                      *)
(***************************************************************************)
\* a is a step function: false up to some index, true from there on.
IsStep == \A i, j \in 1..Len(a) : (i <= j /\ a[i]) => a[j]

\* C10: on a non-empty sequence whose key is a step function reaching true,
\* bisect raises nothing and returns the lowest index whose key is true,
\* whatever the length and wherever the crossover (first, middle, last).
C10_BisectLowestTrue ==
    (Len(a) >= 1 /\ IsStep /\ a[Len(a)]) =>
        /\ bpc # "raised"
        /\ bpc = "returned" =>
              /\ lo \in 0..(Len(a) - 1)
              /\ a[lo + 1]
              /\ \A i \in 1..lo : ~a[i]

\* bisect returned a crossover strictly inside a sequence of full length.
C10_Witness ==
    /\ bpc = "returned"
    /\ Len(a) = MaxLen
    /\ IsStep
    /\ lo = 2
    /\ a[3]
    /\ ~a[2]

\* C11: on a sequence whose key is false for every element, the empty
\* sequence included, bisect never returns an index: the search ends at
\* lo = len(a) and the caller sees a RuntimeError (the StopIteration raised
\* in the coroutine).
C11_BisectAllFalse ==
    (\A i \in 1..Len(a) : ~a[i]) =>
        /\ bpc # "returned"
        /\ (bpc = "loop" /\ ~(lo < hi)) => lo = Len(a)
        /\ bpc = "raised" => berr = "RuntimeError"
        /\ bpc = "loop" => berr = "none"

\* bisect raised on an all-false sequence of full length.
C11_Witness ==
    /\ bpc = "raised"
    /\ berr = "RuntimeError"
    /\ Len(a) = MaxLen
    /\ \A i \in 1..Len(a) : ~a[i]

(***************************************************************************)
(* Properties of the calculated metrics (SpecMetric).                      *)
(***************************************************************************)
\* pv + grid - consumption: in 0.0001 between the decimals, and in
\* representation errors between the doubles.
DecimalDifference == metOut[1].pv.v + metOut[1].grid.v - metIn.consumption.v
DoubleDifference ==
    DecimalDifference * UnitInErrors
    + metOut[1].pv.e + metOut[1].grid.e - metIn.consumption.e

Abs(x) == IF x < 0 THEN -x ELSE x

\* C12 as stated: supply-from-PV plus supply-from-grid differs from the
\* consumption value by at most 0.001.
C12_WithinOneMilli ==
    metOut # <<>> => Abs(DoubleDifference) <= 10 * UnitInErrors

\* C12, amended: the decimal values the two results stand for sum to within
\* 0.001 of the consumption's; between the doubles themselves the
\* difference is at most 0.001 plus the three representation errors.
C12_WithinOneMilliOfDecimals ==
    metOut # <<>> =>
        /\ Abs(DecimalDifference) <= 10
        /\ Abs(DoubleDifference) <= 10 * UnitInErrors + 3

\* Both products fell on a tie and were rounded the same way: the sum is
\* off by a full 0.001.
C12_Witness ==
    /\ metOut # <<>>
    /\ metIn.self_sufficiency = 50
    /\ metIn.consumption.v = 10
    /\ metOut[1].pv.v = 10
    /\ metOut[1].grid.v = 10

\* C13 as stated: with self_sufficiency absent, supply-from-PV is 0 and
\* supply-from-grid equals consumption.value.
C13_GridIsConsumption ==
    (metOut # <<>> /\ metIn.self_sufficiency = Nothing) =>
        /\ metOut[1].pv = [v |-> 0, e |-> 0]
        /\ metOut[1].grid = metIn.consumption

\* C13, amended: with self_sufficiency absent, supply-from-PV is 0 and
\* supply-from-grid is consumption.value rounded to three decimals: within
\* 0.0005 of it, and equal to it when it has no more than three decimals.
C13_GridIsRoundedConsumption ==
    (metOut # <<>> /\ metIn.self_sufficiency = Nothing) =>
        /\ metOut[1].pv = [v |-> 0, e |-> 0]
        /\ metOut[1].grid.v % 10 = 0
        /\ Abs(metOut[1].grid.v - metIn.consumption.v) <= 5
        /\ metIn.consumption.v % 10 = 0 => metOut[1].grid = metIn.consumption

\* Without self_sufficiency, a consumption of 0.0014 gave a grid supply of
\* 0.001.
C13_Witness ==
    /\ metOut # <<>>
    /\ metIn.self_sufficiency = Nothing
    /\ metIn.consumption.v = 14
    /\ metOut[1].grid.v = 10
    /\ metOut[1].pv.v = 0

(***************************************************************************)
(* Further properties of the stored points (SpecInsert, SpecDerive).       *)
(***************************************************************************)
NonDecreasing(st) == \A p, q \in st : p.start < q.start => p.sum <= q.sum

DateRange(from, to) == [i \in 1..(to - from + 1) |-> from + i - 1]

PlanS ==
    IF planIn.store = {} THEN planIn.since
    ELSE LastPoint(planIn.store).start \div (HoursPerDay * 60 * 60)
PlanToday == planIn.now \div (HoursPerDay * 60 * 60)
PlanE == IF PlanToday <= planIn.until + 1 THEN PlanToday ELSE planIn.until + 1

\* C15: when new data is expected the planned dates of a per-area statistic
\* are exactly the consecutive dates S..E, S the area's data_available_since
\* without history and else the date of the last point's start, E =
\* min(today, data_available_until + 1 day); none when S > E. Without
\* history, backfilling fully reported days then leaves one point per hour
\* of every planned date, the last sum being the total of the days.
C15_PlannedDates ==
    /\ (planOut # <<>> /\ planOut[1].expecting_newer_data) =>
          /\ planOut[1].dates = DateRange(PlanS, PlanE)
          /\ PlanS > PlanE => planOut[1].dates = <<>>
    /\ (planStore # <<>> /\ planIn.store = {}) =>
          /\ Cardinality(planStore[1].store) = Len(planOut[1].dates) * HoursPerDay
          /\ planStore[1].consumption_sum =
                Len(planOut[1].dates) * HoursPerDay * SlotsPerHour * MaxValue
          /\ \A p \in planStore[1].store : p.sum <= planStore[1].consumption_sum

\* No history, data since the first day, today the second day: both days
\* are planned and backfilled, a point per hour.
C15_Witness ==
    /\ planStore # <<>>
    /\ planIn.store = {}
    /\ planIn.since = 0
    /\ PlanToday = 1
    /\ planOut[1].dates = <<0, 1>>
    /\ Cardinality(planStore[1].store) = 2 * HoursPerDay
    /\ planStore[1].consumption_sum = 2 * HoursPerDay * SlotsPerHour * MaxValue

(***************************************************************************)
(* Properties of the work of a pass (Spec).                                *)
(***************************************************************************)
ConsumptionJobsOf(id) ==
    {jobs[i].what : i \in {k \in 1..Len(jobs) :
                              jobs[k].kind = "consumption" /\ jobs[k].area = id}}
AreasOfPass == {jobs[i].area : i \in {k \in 1..Len(jobs) : jobs[k].kind = "metric"}}

\* C16: in every pass an area whose name starts with "SP" is processed for
\* the electricity consumption type only, and every other area (one named
\* "sp" in lower case included) for all four consumption types.
C16_ParkingOnlyElectricity ==
    \A id \in AreasOfPass :
        IF id = 2
        THEN ConsumptionJobsOf(id) = {"electricity"}
        ELSE ConsumptionJobsOf(id) = {"electricity", "water_cold", "water_hot", "heat"}

\* A pass over a parking space and an area named "sp" is under way.
C16_Witness ==
    /\ \E t \in Tasks : InCriticalSection(t)
    /\ passPos >= 2
    /\ AreasOfPass = {2, 3}
    /\ ConsumptionJobsOf(2) = {"electricity"}
    /\ "heat" \in ConsumptionJobsOf(3)

(***************************************************************************)
(* Properties of the derived statistic across passes (SpecDerive).         *)
(***************************************************************************)
\* The sum of f(state) over the non-null base points from the first derived
\* point's start up to `start`, each counted once.
DerivedSumUpTo(start) ==
    LET first == CHOOSE p \in derived : \A q \in derived : p.start <= q.start
        rows == SelectSeq(base, LAMBDA b : b.start >= first.start /\ b.start <= start)
    IN  SumOfTransformed(rows, Len(rows))

\* C17 as stated: after any sequence of derive passes every derived point
\* has sum = the sum of the point before it + its own state (a null state
\* adding nothing), and the latest point's sum is the sum of f(state) over
\* the base points since the first derived point, each counted once.
C17_DerivedSumAcrossPasses ==
    /\ \A p \in derived :
          p.sum = PrecedingSum(derived, p)
                    + (IF p.state = Nothing THEN 0 ELSE p.state)
    /\ derived # {} =>
          LastPoint(derived).sum = DerivedSumUpTo(LastPoint(derived).start)

(***************************************************************************)
(* C18, C19: the hours whose two series cannot be paired.                  *)
(***************************************************************************)
\* The two series of an hour differ in length, or a positional pair differs
\* in start or period.
CannotPair(consumptions, pv_stats) ==
    \/ Len(consumptions) # Len(pv_stats)
    \/ \E i \in 1..Min(Len(consumptions), Len(pv_stats)) :
         \/ consumptions[i].start # pv_stats[i].start
         \/ consumptions[i].period # pv_stats[i].period

\* The hours the loop visits that have data in both series.
HoursWithBoth ==
    {h \in 0..Min(MaxKey(dpIn.cons), MaxKey(dpIn.pv)) :
        dpIn.cons[h] # <<>> /\ dpIn.pv[h] # <<>>}

DatapointsOfHour(h) ==
    SelectSeq(dpOut[1].datapoints,
              LAMBDA dp : dp.start >= h * SecondsPerHour
                          /\ dp.start < (h + 1) * SecondsPerHour)

\* C18: in a call that returned, every hour whose consumption and
\* photovoltaic series cannot be paired (different lengths, or a positional
\* pair of different start or period) contributes exactly one datapoint: at
\* the top of the hour, of one hour, carrying the summed consumption and the
\* mean self-sufficiency.
C18_UnpairedHourEmitsOneAggregate ==
    (dpOut # <<>> /\ dpOut[1].raised = "none") =>
        \A h \in HoursWithBoth :
            CannotPair(dpIn.cons[h], dpIn.pv[h]) =>
                /\ Len(DatapointsOfHour(h)) = 1
                /\ DatapointsOfHour(h)[1].start = h * SecondsPerHour
                /\ DatapointsOfHour(h)[1].period = SecondsPerHour
                /\ DatapointsOfHour(h)[1].value = SumValues(dpIn.cons[h])
                /\ DatapointsOfHour(h)[1].self_sufficiency
                     = [num |-> SumOrHundred(dpIn.pv[h], "self_sufficiency"),
                        den |-> Len(dpIn.pv[h])]

\* C19: get_daily_datapoints returns a list whatever the two series of each
\* hour look like; no error of the alignment or of the aggregation leaves it.
C19_NothingRaised ==
    dpOut # <<>> => dpOut[1].raised = "none"

(***************************************************************************)
(* C20: a remote query that raises in the middle of a pass.                *)
(***************************************************************************)
\* C20: the queries of a statistic's pass stop only with the last planned
\* date: a date whose remote query raised is dropped and the pass goes on
\* with the following dates, so no step leaves the date loop while a later
\* date is still to be queried.
C20_PassContinuesAfterFetchError ==
    [][(ipc = "dates" /\ ipc' = "idle") => pass.date = pass.newest]_vars

(***************************************************************************)
(* C21: the first date of a pass over a statistic that has a last point.   *)
(***************************************************************************)
\* The step that plans the dates of a pass and reaches its first query.
PlansDates == ipc = "idle" /\ ipc' = "dates" /\ store # {}

\* C21 as stated: a quarter-wide pass starts at the calendar date of the
\* last point's end, a per-area pass at the date of the last point's start;
\* the quarter-wide sequence ends at today.
C21_QuarterStartsAtEndDate ==
    [][PlansDates =>
         /\ family = "quarter" =>
              /\ pass'.date = DateOf(LastPoint(store).start + 60 * 60)
              /\ pass'.newest = DateOf(now)
         /\ family = "individual" => pass'.date = DateOf(LastPoint(store).start)]_vars

\* C21, amended: both families start at the calendar date of the last
\* point's start; the quarter-wide sequence ends at today.
C21_BothStartAtStartDate ==
    [][PlansDates =>
         /\ pass'.date = DateOf(LastPoint(store).start)
         /\ family = "quarter" => pass'.newest = DateOf(now)]_vars

\* A quarter-wide pass has planned its dates from a last point that starts
\* in the last hour of a day (so that start and end fall on different dates).
C21_Witness ==
    /\ family = "quarter"
    /\ ipc = "dates"
    /\ pass.last_stats_time # Nothing
    /\ HourOf(pass.last_stats_time) = HoursPerDay - 1
    /\ pass.date = DateOf(pass.last_stats_time)
    /\ pass.hour = 0

(***************************************************************************)
(* C22: the hours at or before the anchor (SpecAgg).                       *)
(***************************************************************************)
AtOrBeforeAnchor(g) ==
    aggIn.last_stats_time # Nothing /\ g[1].start <= aggIn.last_stats_time

RECURSIVE SumStates(_)
SumStates(points) ==
    IF points = <<>> THEN 0 ELSE Head(points).state + SumStates(Tail(points))

\* C22: an hour group whose first reading starts at or before the anchor
\* makes no point; every emitted point starts after the anchor, and the
\* running sum grows by the states of the emitted points only, so the
\* values of the anchor's hour and of earlier hours are not added again.
C22_NothingAtOrBeforeAnchor ==
    aggOut # <<>> =>
        /\ \A i \in 1..Len(AggGroups) :
              AtOrBeforeAnchor(AggGroups[i]) =>
                  PointsStartingAt(aggOut[1].emitted, AggGroups[i][1].start) = {}
        /\ aggIn.last_stats_time # Nothing =>
              \A k \in 1..Len(aggOut[1].emitted) :
                  aggOut[1].emitted[k].start > aggIn.last_stats_time
        /\ aggOut[1].consumption_sum = aggIn.sum + SumStates(aggOut[1].emitted)
        /\ \A p \in aggOut[1].store : \E k \in 1..Len(aggOut[1].emitted) :
              aggOut[1].emitted[k] = p

\* The anchor's own day was queried again: the response holds the anchor's
\* hour, fully reported with values above zero, and the hour after it; only
\* the later hour made a point.
C22_Witness ==
    /\ aggOut # <<>>
    /\ aggIn.last_stats_time # Nothing
    /\ \E i \in 1..Len(AggGroups) :
         /\ AggGroups[i][1].start = aggIn.last_stats_time
         /\ SumPeriods(AggGroups[i]) = 60 * 60
         /\ SumValues(AggGroups[i]) > 0
    /\ Len(aggOut[1].emitted) = 1
    /\ aggOut[1].emitted[1].start = aggIn.last_stats_time + 60 * 60
    /\ aggOut[1].emitted[1].state > 0
    /\ aggOut[1].consumption_sum = aggIn.sum + aggOut[1].emitted[1].state

(***************************************************************************)
(* C23, C24: earliest-date discovery (SpecDiscovery).                      *)
(***************************************************************************)
\* C23: whenever discovery yields no first date (no month has data, or a
\* remote query of the month search or of the re-query raised), what the
\* caller sees is UpdateFailed.
C23_DiscoveryFailureIsUpdateFailed ==
    edOut # <<>> =>
        (edOut[1].date = Nothing => edOut[1].raised = "UpdateFailed")

\* has-data is false for a prefix of the months and true thereafter, and
\* true for at least one month
MonthsAreStep ==
    /\ \E m \in 1..Len(edIn.months) : edIn.months[m] # {}
    /\ \A m, k \in 1..Len(edIn.months) :
         (m < k /\ edIn.months[m] # {}) => edIn.months[k] # {}

DatesWithData ==
    {(x[1] - 1) * DaysPerMonth + (x[2] - 1) :
        x \in {y \in (1..Len(edIn.months)) \X (1..DaysPerMonth) : y[2] \in edIn.months[y[1]]}}

\* C24: when the months' has-data is a step and no query raises, discovery
\* returns the earliest date that has a reading, which is the earliest date
\* of the first month with data; it makes the search's queries plus one.
C24_EarliestDateFound ==
    (edOut # <<>> /\ MonthsAreStep /\ edIn.fail = 0) =>
        /\ edOut[1].raised = "none"
        /\ edOut[1].date \in DatesWithData
        /\ \A d \in DatesWithData : edOut[1].date <= d
        /\ \E m \in 1..Len(edIn.months) :
             /\ edIn.months[m] # {}
             /\ \A k \in 1..(m - 1) : edIn.months[k] = {}
             /\ edOut[1].date \div DaysPerMonth = m - 1

\* Two months without data, then a month whose first reading is on its
\* second day, then a month with data: the second day was returned.
C24_Witness ==
    /\ edOut # <<>>
    /\ edIn.fail = 0
    /\ Len(edIn.months) = 4
    /\ edIn.months[1] = {} /\ edIn.months[2] = {}
    /\ edIn.months[3] = {2}
    /\ edIn.months[4] # {}
    /\ edOut[1].raised = "none"
    /\ edOut[1].date = 2 * DaysPerMonth + 1

(***************************************************************************)
(* C25: the hours get_daily_datapoints covers (SpecDaily).                 *)
(***************************************************************************)
\* C25: the call returns, and the hours of the day that have a datapoint
\* are exactly those for which both series hold at least one reading; in
\* particular the result is empty when either series is empty for the day.
C25_ExactlyHoursWithBoth ==
    dpOut # <<>> =>
        /\ dpOut[1].raised = "none"
        /\ \A h \in DayHours :
             Len(DatapointsOfHour(h)) > 0 <=> (dpIn.cons[h] # <<>> /\ dpIn.pv[h] # <<>>)

(***************************************************************************)
(* C26: a pass over a statistic whose gate reports no new data.            *)
(***************************************************************************)
\* The last point ended at most 75 minutes ago.
GateClosed ==
    store # {} /\ now - (LastPoint(store).start + 60 * 60) <= 75 * 60

Phase(job) ==
    IF job.kind \in {"consumption", "metric"} THEN 1
    ELSE IF job.kind = "quarter" THEN 2 ELSE 3

JobsOfKind(kind) == SelectSeq(jobs, LAMBDA j : j.kind = kind)

OrderOfPass ==
    \* nothing is processed before the area list is there
    /\ passPos = 0 => jobs = <<>>
    /\ passPos <= Len(jobs)
    \* areas, then the site-wide statistics, then the derived ones
    /\ \A i, j \in 1..Len(jobs) : i < j => Phase(jobs[i]) <= Phase(jobs[j])
    \* an area's statistics are processed together, consumption types first
    /\ \A i, j \in 1..Len(jobs) :
         (i < j /\ Phase(jobs[i]) = 1 /\ Phase(jobs[j]) = 1
          /\ jobs[i].area = jobs[j].area) =>
            /\ ~(jobs[i].kind = "metric" /\ jobs[j].kind = "consumption")
            /\ \A k \in i..j : jobs[k].area = jobs[i].area
    \* every area is processed for each calculated metric
    /\ \A i \in 1..Len(jobs) : jobs[i].kind = "consumption" =>
         \A w \in {"supply_from_pv", "supply_from_grid"} :
            \E j \in (i + 1)..Len(jobs) :
               jobs[j] = [kind |-> "metric", area |-> jobs[i].area, what |-> w]
    \* the four site-wide statistics, in this order
    /\ passPos >= 1 =>
         [i \in 1..Len(JobsOfKind("quarter")) |-> JobsOfKind("quarter")[i].what]
            = <<"quarter_consumption", "quarter_generation",
                "quarter_supply_from_grid", "quarter_feed_into_grid">>
    \* one derived statistic per ownership-share subentry, after its base
    /\ passPos >= 1 =>
         Len(JobsOfKind("per_share"))
            = Len(SelectSeq(subentries, LAMBDA s : s = "ownership_shares"))
    /\ \A j \in 1..Len(jobs) : jobs[j].kind = "per_share" =>
         \E i \in 1..(j - 1) :
            jobs[i].kind = "quarter" /\ jobs[i].what = "quarter_feed_into_grid"

\* C27: the statistics of a pass are laid out as: per area its consumption
\* types and then the calculated metrics, then the four site-wide statistics
\* in their order, then one derived statistic per ownership-share subentry;
\* and the pass processes them one after the other in that order.
C27_OrderOfWork ==
    /\ []OrderOfPass
    /\ [][passPos' \in {passPos, passPos + 1, 0}]_vars

\* A pass over two areas has reached its derived per-share statistic.
C27_Witness ==
    /\ \E t \in Tasks : InCriticalSection(t)
    /\ passPos >= 1
    /\ jobs[passPos].kind = "per_share"
    /\ Cardinality(AreasOfPass) = 2

(***************************************************************************)
(* C28: what a polling cycle triggers (SpecPoll).                          *)
(***************************************************************************)
PrimaryData == {"traffic_light_status", "meter_table", "current_photovoltaic_data"}

\* C28: in every polling cycle trigger_insertion is called at most once,
\* and only once all three primary fetches have succeeded; a cycle whose
\* primary fetch raised triggers nothing and ends as a re-authentication
\* request (authentication failure) or as a failed update (any other error).
C28_TriggerAfterPrimaryData ==
    \A i \in 1..Len(cycles) :
        /\ cycles[i].triggers <= 1
        /\ cycles[i].triggers = 1 =>
              /\ cycles[i].fetched = PrimaryData
              /\ cycles[i].remote = "none"
        /\ cycles[i].outcome = "returned" => cycles[i].triggers = 1
        /\ cycles[i].remote # "none" =>
              /\ cycles[i].triggers = 0
              /\ cycles[i].outcome =
                    (IF cycles[i].remote = "AuthenticationFailed"
                     THEN "ConfigEntryAuthFailed" ELSE "UpdateFailed")

\* Three cycles: an authentication failure at the last primary fetch, a
\* source error at the first, and a cycle that triggered an insertion.
C28_Witness ==
    /\ Len(cycles) = 3
    /\ upc = "idle"
    /\ cycles[1].outcome = "ConfigEntryAuthFailed"
    /\ cycles[1].fetched = {"traffic_light_status", "meter_table"}
    /\ cycles[2].outcome = "UpdateFailed" /\ cycles[2].fetched = {}
    /\ cycles[3].outcome = "returned" /\ cycles[3].triggers = 1

(***************************************************************************)
(* C29: what a pass appends, relative to what is stored (SpecInsert).      *)
(***************************************************************************)
\* C29: every point a pass appends starts after the anchor the pass read at
\* its beginning and after every point the pass appended before it, that is
\* after every stored point: no stored hour is written again, and an hour
\* that was skipped is never inserted once a later hour is stored.
C29_AppendedAfterAllStored ==
    [][\A p \in store' \ store :
          /\ ipc = "dates"
          /\ pass.last_stats_time # Nothing => p.start > pass.last_stats_time
          /\ \A q \in store : q.start < p.start]_vars

\* The first hour was skipped and the second stored; a later pass queried
\* that day again and appended only the hour after the anchor.
C29_Witness ==
    /\ pass.last_stats_time = 60 * 60
    /\ {p.start : p \in store} = {60 * 60, 2 * 60 * 60}

(***************************************************************************)
(* C30: a pass aborted by an exception and the pass after it (SpecPlan).   *)
(***************************************************************************)
\* C30: the points appended before the abort stay in the store, and a later
\* complete pass over the same remote data leaves exactly the points and
\* running sums that one uninterrupted pass would have left: none twice,
\* no value added to the running sum twice.
C30_ResumeEqualsSinglePass ==
    planResume # <<>> =>
        /\ planIn.store \subseteq planResume[1].aborted
        /\ planResume[1].aborted \subseteq planResume[1].resumed
        /\ planResume[1].complete =>
              /\ planResume[1].resumed = planResume[1].single
              /\ \A p, q \in planResume[1].resumed : p.start = q.start => p = q

\* A pass without history was aborted after its first date; the later pass
\* added the remaining hours and the result is the single pass's.
C30_Witness ==
    /\ planResume # <<>>
    /\ planIn.store = {}
    /\ planResume[1].processed = 1
    /\ Cardinality(planResume[1].aborted) = HoursPerDay
    /\ planResume[1].complete
    /\ Cardinality(planResume[1].resumed) = 2 * HoursPerDay
    /\ planResume[1].resumed = planResume[1].single
    /\ \E p \in planResume[1].resumed : p.sum = 2 * HoursPerDay * SlotsPerHour * MaxValue

====
